---- MODULE Spec2Model ----
(***************************************************************************)
(* Sale transaction workflow of shop_django_api: SaleService.create_sale,  *)
(* update_sale and delete_sale over the Product, ProductHistory, Sale,     *)
(* SaleItem and Customer tables (src/shop/services/sale_service.py,        *)
(* src/shop/models.py).  Money is counted in whole currency units.         *)
(***************************************************************************)
EXTENDS Integers, Sequences, FiniteSets, TLC

\* ---------------------------------------------------------------- bounds
MaxOps == 3        \* service calls in one behaviour
MaxItems == 2      \* lines of one item list
MaxQty == 2        \* quantity of one line
MaxTxns == 2       \* transactions that run side by side
MaxConcSales == 1  \* sales made before the concurrent deletes begin
TicksPerDay == 2   \* instants of the clock in one calendar day

\* ------------------------------------------------------------- fixtures
Products == {"p1", "p2", "p3"}
Customers == {"k1", "k2", "k3"}
Users == {"uA", "uB", "u0"}
NoCompany == "none"
NoCustomer == "none"
NoSale == 0
NoError == "none"
NoProduct == "none"
\* a customer id that no Customer row has
AbsentCustomer == "kX"

\* request.user.company_id: u0 is a user that belongs to no company
UserCompany(u) == CASE u = "uA" -> "A" [] u = "uB" -> "B" [] OTHER -> NoCompany

ProductCompany(p) == IF p = "p3" THEN "B" ELSE "A"
CustomerCompany(c) == IF c = "k3" THEN "B" ELSE "A"
InitStock(p) == CASE p = "p1" -> 2 [] p = "p2" -> 1 [] OTHER -> 1
InitBuyingPrice(p) == CASE p = "p1" -> 1 [] p = "p2" -> 2 [] OTHER -> 1
SellingPrices == {3}
Quantities == 1..MaxQty

VARIABLES products, history, sales, customers, next_sale_id, clock, nops, last, tx

vars == <<products, history, sales, customers, next_sale_id, clock, nops, last, tx>>

\* -------------------------------------------------------------- tables
\* models.Product (company, current_stock, buying_price, is_active)
Product(p) ==
    [company |-> ProductCompany(p), current_stock |-> InitStock(p),
     buying_price |-> InitBuyingPrice(p), is_active |-> TRUE]

\* models.Customer (aggregate fields)
Customer(c) ==
    [company |-> CustomerCompany(c), total_purchases |-> 0,
     total_transactions |-> 0, last_purchase_date |-> 0]

\* a history row that records the size of the change without its sign
ProductHistory_unsigned(product, transaction_type, quantity_changed, stock_before, stock_after, unit_price, total_value, company_id) ==
    [product |-> product, transaction_type |-> transaction_type,
     quantity_changed |-> IF quantity_changed < 0 THEN -quantity_changed
                          ELSE quantity_changed,
     stock_before |-> stock_before,
     stock_after |-> stock_after, unit_price |-> unit_price,
     total_value |-> total_value, company |-> company_id]

\* models.ProductHistory row
ProductHistory(product, transaction_type, quantity_changed, stock_before, stock_after, unit_price, total_value, company_id) ==
    [product |-> product, transaction_type |-> transaction_type,
     quantity_changed |-> quantity_changed, stock_before |-> stock_before,
     stock_after |-> stock_after, unit_price |-> unit_price,
     total_value |-> total_value, company |-> company_id]

\* models.SaleItem row (kept inside its owning Sale: cascade ownership)
SaleItem(product_id, quantity, unit_buying_price, unit_selling_price, total_amount, total_cost, total_profit) ==
    [product_id |-> product_id, quantity |-> quantity,
     unit_buying_price |-> unit_buying_price,
     unit_selling_price |-> unit_selling_price,
     total_amount |-> total_amount, total_cost |-> total_cost,
     total_profit |-> total_profit]

\* models.Sale row with its items
Sale(customer_id, total_amount, total_cost, total_profit, company_id, sale_date, items) ==
    [customer_id |-> customer_id, total_amount |-> total_amount,
     total_cost |-> total_cost, total_profit |-> total_profit,
     company |-> company_id, sale_date |-> sale_date, items |-> items]

\* the database as one value: what a transaction reads and writes
DB == [products |-> products, history |-> history, sales |-> sales,
       customers |-> customers]

\* ------------------------------------------------------------ requests
ItemRequests ==
    [product_id : Products, quantity : Quantities,
     unit_selling_price : SellingPrices]

ItemLists == UNION {[1..n -> ItemRequests] : n \in 0..MaxItems}

\* validated_data whose customer_id is empty or the id of a stored customer
SaleData == [items : ItemLists, customer_id : Customers \cup {NoCustomer}]

\* validated_data: customer_id is any string, the id of a stored row or not
SaleRequests == SaleData \cup [items : ItemLists, customer_id : {AbsentCustomer}]

\* request.data as submitted: a line may ask for a quantity of 0
SubmittedItems ==
    [product_id : Products, quantity : 0..MaxQty,
     unit_selling_price : SellingPrices]

SubmittedLists == UNION {[1..n -> SubmittedItems] : n \in 0..MaxItems}

SubmittedData ==
    [items : SubmittedLists,
     customer_id : Customers \cup {NoCustomer, AbsentCustomer}]

\* SaleItemRequestSerializer / SaleItemUpdateSerializer: quantity has
\* min_value=1 and unit_selling_price min_value=0.01
SaleItemRequestSerializer_is_valid(item) ==
    item.quantity >= 1 /\ item.unit_selling_price > 0

\* SaleCreateSerializer / SaleUpdateSerializer .is_valid(): every line of
\* items is valid; items = SaleItemRequestSerializer(many=True) puts no
\* lower bound on the number of lines
SaleCreateSerializer_is_valid(data) ==
    \A i \in 1..Len(data.items) :
        SaleItemRequestSerializer_is_valid(data.items[i])

\* ------------------------------------------------------------- results
Exceptions ==
    {"PermissionError", "ProductNotFound", "InsufficientStock", "IntegrityError"}

\* the ValueError raised by a line of the item list
ValueErrors == {"ProductNotFound", "InsufficientStock"}

\* what a service call gives back: names is the product the message of a
\* ValueError names
Result(outcome, d, sale_id, failed_at) ==
    [outcome |-> outcome, db |-> d, sale_id |-> sale_id,
     failed_at |-> failed_at, names |-> NoProduct]

\* the foreign key sales.customer_id -> customers.id of the sales table
customer_fk_violated(d, customer_id) ==
    customer_id # NoCustomer /\ customer_id \notin DOMAIN d.customers

\* a block that keeps the writes made before the exception
atomic_no_rollback(d, r) == r

\* `with transaction.atomic()`: an exception leaving the block rolls every
\* write of the block back; a normal exit commits them
atomic(d, r) == IF r.outcome \in Exceptions THEN [r EXCEPT !.db = d] ELSE r

\* Customer.objects.filter(pk=customer_id, company_id=company_id).first()
customer_in_company(d, customer_id, company_id) ==
    /\ customer_id \in DOMAIN d.customers
    /\ d.customers[customer_id].company = company_id

\* ---------------------------------------------------------- create_sale
\* a create_sale that never refuses a line for lack of stock
create_sale_insufficient_off(product, qty) == FALSE

\* `if product.current_stock < item_req["quantity"]` of create_sale
create_sale_insufficient(product, qty) == product.current_stock < qty

\* item_total, item_cost and item_profit of one line of create_sale
create_sale_amounts(qty, unit_selling, unit_buying) ==
    [item_total |-> qty * unit_selling, item_cost |-> qty * unit_buying,
     item_profit |-> (qty * unit_selling) - (qty * unit_buying)]

\* one pass of the `for item_req in data["items"]` loop of create_sale
create_sale_item(st, item_req, company_id, k) ==
    LET d == st.db
        pid == item_req.product_id
    IN  IF ~(pid \in DOMAIN d.products /\ d.products[pid].company = company_id)
        THEN [st EXCEPT !.error = "ProductNotFound", !.failed_at = k,
                        !.names = pid]
        ELSE
        LET product == d.products[pid]
            qty == item_req.quantity
        IN  IF create_sale_insufficient(product, qty)
            THEN [st EXCEPT !.error = "InsufficientStock", !.failed_at = k,
                            !.names = pid]
            ELSE
            LET unit_buying == product.buying_price
                unit_selling == item_req.unit_selling_price
                amounts == create_sale_amounts(qty, unit_selling, unit_buying)
                item_total == amounts.item_total
                item_cost == amounts.item_cost
                item_profit == amounts.item_profit
                stock_before == product.current_stock
                stock_after == product.current_stock - qty
            IN  [st EXCEPT
                  !.total_amount = @ + item_total,
                  !.total_cost = @ + item_cost,
                  !.sale_items_data = Append(@,
                      SaleItem(pid, qty, unit_buying, unit_selling,
                               item_total, item_cost, item_profit)),
                  \* the fetched object is changed, the row is saved later
                  !.product_updates = Append(@,
                      [product_id |-> pid, current_stock |-> stock_after]),
                  !.db.history = Append(@,
                      ProductHistory(pid, "Sale", -qty, stock_before,
                                     stock_after, unit_selling, item_total,
                                     company_id))]

RECURSIVE create_sale_items(_, _, _, _)
create_sale_items(st, items, k, company_id) ==
    IF k > Len(items) \/ st.error # NoError THEN st
    ELSE create_sale_items(create_sale_item(st, items[k], company_id, k),
                           items, k + 1, company_id)

\* `for p in product_updates: p.save(update_fields=["current_stock"])`
RECURSIVE save_product_updates(_, _, _)
save_product_updates(prods, product_updates, k) ==
    IF k > Len(product_updates) THEN prods
    ELSE save_product_updates(
            [prods EXCEPT ![product_updates[k].product_id].current_stock =
                              product_updates[k].current_stock],
            product_updates, k + 1)

\* the customer statistics block of create_sale
create_sale_customer(custs, customer_id, company_id, total_amount, now) ==
    IF customer_id # NoCustomer
       /\ customer_id \in DOMAIN custs
       /\ custs[customer_id].company = company_id
    THEN [custs EXCEPT
            ![customer_id].total_purchases = @ + total_amount,
            ![customer_id].total_transactions = @ + 1,
            ![customer_id].last_purchase_date = now]
    ELSE custs

\* the body of the atomic block of create_sale
create_sale_body(d, data, company_id, sale_id, now) ==
    LET st0 == [db |-> d, total_amount |-> 0, total_cost |-> 0,
                sale_items_data |-> <<>>, product_updates |-> <<>>,
                error |-> NoError, failed_at |-> 0, names |-> NoProduct]
        st == create_sale_items(st0, data.items, 1, company_id)
    IN  IF st.error # NoError
        THEN [Result(st.error, st.db, NoSale, st.failed_at)
                EXCEPT !.names = st.names]
        ELSE
        LET custs == create_sale_customer(st.db.customers, data.customer_id,
                                          company_id, st.total_amount, now)
            sale == Sale(data.customer_id, st.total_amount, st.total_cost,
                         st.total_amount - st.total_cost, company_id, now,
                         st.sale_items_data)
            d1 == [st.db EXCEPT
                     !.customers = custs,
                     !.sales = (sale_id :> sale) @@ @,
                     !.products = save_product_updates(@, st.product_updates, 1)]
        IN  \* Sale.objects.create: the insert of a row whose customer_id
            \* names no customer row is refused by the store
            IF customer_fk_violated(st.db, data.customer_id)
            THEN Result("IntegrityError", [st.db EXCEPT !.customers = custs],
                        NoSale, 0)
            ELSE Result("ok", d1, sale_id, 0)

\* SaleService.create_sale(data, user)
create_sale(d, data, user, sale_id, now) ==
    LET company_id == UserCompany(user)
    IN  IF company_id = NoCompany
        THEN Result("PermissionError", d, NoSale, 0)
        ELSE atomic(d, create_sale_body(d, data, company_id, sale_id, now))

\* ---------------------------------------------------------- update_sale
\* SaleItem.objects.filter(sale=sale): SaleItem has no Meta.ordering and a
\* random uuid key, so the rows come back in an order the store chooses
\* (order is a permutation of the rows' positions)
sale_items_of(sale, order) == [i \in 1..Len(sale.items) |-> sale.items[order[i]]]

\* a sale lookup by id alone
sale_in_any_company(d, sale_id, company_id) == sale_id \in DOMAIN d.sales

\* Sale.objects.filter(pk=sale_id, company_id=company_id).first()
sale_in_company(d, sale_id, company_id) ==
    /\ sale_id \in DOMAIN d.sales
    /\ d.sales[sale_id].company = company_id

\* an update_sale that does not give the old quantity back
update_sale_reverse_item_skip(d, item, company_id) == d

\* one pass of the "Restore stock for existing items" loop of update_sale
update_sale_reverse_item(d, item, company_id) ==
    LET pid == item.product_id
    IN  IF pid \notin DOMAIN d.products THEN d
        ELSE
        LET stock_before == d.products[pid].current_stock
            stock_after == stock_before + item.quantity
        IN  [d EXCEPT
              !.products[pid].current_stock = stock_after,
              !.history = Append(@,
                  ProductHistory(pid, "Sale Update (Reversal)", item.quantity,
                                 stock_before, stock_after,
                                 item.unit_selling_price, item.total_amount,
                                 company_id))]

RECURSIVE update_sale_reverse_items(_, _, _, _)
update_sale_reverse_items(d, existing_items, k, company_id) ==
    IF k > Len(existing_items) THEN d
    ELSE update_sale_reverse_items(
            update_sale_reverse_item(d, existing_items[k], company_id),
            existing_items, k + 1, company_id)

\* an update_sale that leaves the old SaleItem rows in place
update_sale_keep_items(d, sale_id) == d

\* SaleItem.objects.filter(sale=sale).delete() of update_sale
update_sale_delete_items(d, sale_id) == [d EXCEPT !.sales[sale_id].items = <<>>]

\* an update_sale that never refuses a line for lack of stock
update_sale_insufficient_off(product, qty) == FALSE

\* `if product.current_stock < qty` of update_sale
update_sale_insufficient(product, qty) == product.current_stock < qty

\* line amounts whose cost is taken from the selling price
update_sale_amounts_wrong_cost(qty, unit_selling, unit_buying) ==
    [item_total |-> qty * unit_selling, item_cost |-> qty * unit_selling,
     item_profit |-> (qty * unit_selling) - (qty * unit_buying)]

\* item_total, item_cost and item_profit of one line of update_sale
update_sale_amounts(qty, unit_selling, unit_buying) ==
    [item_total |-> qty * unit_selling, item_cost |-> qty * unit_buying,
     item_profit |-> (qty * unit_selling) - (qty * unit_buying)]

\* one pass of the `for item_req in data["items"]` loop of update_sale
update_sale_item(st, item_req, sale_id, company_id, k) ==
    LET d == st.db
        pid == item_req.product_id
    IN  IF ~(pid \in DOMAIN d.products /\ d.products[pid].company = company_id)
        THEN [st EXCEPT !.error = "ProductNotFound", !.failed_at = k,
                        !.names = pid]
        ELSE
        LET product == d.products[pid]
            qty == item_req.quantity
        IN  IF update_sale_insufficient(product, qty)
            THEN [st EXCEPT !.error = "InsufficientStock", !.failed_at = k,
                            !.names = pid]
            ELSE
            LET unit_buying == product.buying_price
                unit_selling == item_req.unit_selling_price
                amounts == update_sale_amounts(qty, unit_selling, unit_buying)
                item_total == amounts.item_total
                item_cost == amounts.item_cost
                item_profit == amounts.item_profit
                stock_before == product.current_stock
                stock_after == product.current_stock - qty
            IN  [st EXCEPT
                  !.new_total = @ + item_total,
                  !.new_cost = @ + item_cost,
                  !.db.sales[sale_id].items = Append(@,
                      SaleItem(pid, qty, unit_buying, unit_selling,
                               item_total, item_cost, item_profit)),
                  !.db.products[pid].current_stock = stock_after,
                  !.db.history = Append(@,
                      ProductHistory(pid, "Sale Update", -qty, stock_before,
                                     stock_after, unit_selling, item_total,
                                     company_id))]

RECURSIVE update_sale_items(_, _, _, _, _)
update_sale_items(st, items, k, sale_id, company_id) ==
    IF k > Len(items) \/ st.error # NoError THEN st
    ELSE update_sale_items(
            update_sale_item(st, items[k], sale_id, company_id, k),
            items, k + 1, sale_id, company_id)

\* the "Update customer statistics" block of update_sale
update_sale_customers(custs, old_customer_id, new_customer_id, company_id, previous_total, new_total, now) ==
    LET c1 == IF old_customer_id # NoCustomer
                 /\ customer_in_company([customers |-> custs],
                                        old_customer_id, company_id)
              THEN [custs EXCEPT
                      ![old_customer_id].total_purchases =
                          (@ - previous_total) + new_total,
                      ![old_customer_id].last_purchase_date = now]
              ELSE custs
    IN  IF new_customer_id # NoCustomer /\ new_customer_id # old_customer_id
        THEN
        LET c2 == IF old_customer_id # NoCustomer
                     /\ customer_in_company([customers |-> c1],
                                            old_customer_id, company_id)
                  THEN [c1 EXCEPT
                          ![old_customer_id].total_purchases = @ - new_total,
                          ![old_customer_id].total_transactions = @ - 1]
                  ELSE c1
        IN  IF customer_in_company([customers |-> c2], new_customer_id,
                                   company_id)
            THEN [c2 EXCEPT
                    ![new_customer_id].total_purchases = @ + new_total,
                    ![new_customer_id].total_transactions = @ + 1,
                    ![new_customer_id].last_purchase_date = now]
            ELSE c2
        ELSE c1

\* the body of the atomic block of update_sale
update_sale_body(d, sale_id, data, company_id, now, order) ==
    IF ~sale_in_company(d, sale_id, company_id)
    THEN Result("SaleNotFound", d, sale_id, 0)
    ELSE
    LET sale == d.sales[sale_id]
        existing_items == sale_items_of(sale, order)
        previous_total == sale.total_amount
        d1 == update_sale_reverse_items(d, existing_items, 1, company_id)
        d2 == update_sale_delete_items(d1, sale_id)
        st0 == [db |-> d2, new_total |-> 0, new_cost |-> 0,
                error |-> NoError, failed_at |-> 0, names |-> NoProduct]
        st == update_sale_items(st0, data.items, 1, sale_id, company_id)
    IN  IF st.error # NoError
        THEN [Result(st.error, st.db, sale_id, st.failed_at)
                EXCEPT !.names = st.names]
        ELSE
        LET custs == update_sale_customers(st.db.customers, sale.customer_id,
                         data.customer_id, company_id, previous_total,
                         st.new_total, now)
            d3 == [st.db EXCEPT
                     !.customers = custs,
                     !.sales[sale_id].customer_id =
                         IF data.customer_id # NoCustomer
                         THEN data.customer_id ELSE sale.customer_id,
                     !.sales[sale_id].total_amount = st.new_total,
                     !.sales[sale_id].total_cost = st.new_cost,
                     !.sales[sale_id].total_profit = st.new_total - st.new_cost]
        IN  \* sale.save(): a customer_id that names no customer row is
            \* refused by the store
            IF customer_fk_violated(st.db, d3.sales[sale_id].customer_id)
            THEN Result("IntegrityError", [st.db EXCEPT !.customers = custs],
                        sale_id, 0)
            ELSE Result("ok", d3, sale_id, 0)

\* an update_sale whose body runs outside any transaction
update_sale_no_atomic(d, sale_id, data, user, now, order) ==
    LET company_id == UserCompany(user)
    IN  IF company_id = NoCompany
        THEN Result("PermissionError", d, sale_id, 0)
        ELSE update_sale_body(d, sale_id, data, company_id, now, order)

\* SaleService.update_sale(sale_id, data, user)
update_sale(d, sale_id, data, user, now, order) ==
    LET company_id == UserCompany(user)
    IN  IF company_id = NoCompany
        THEN Result("PermissionError", d, sale_id, 0)
        ELSE atomic(d, update_sale_body(d, sale_id, data, company_id, now,
                                        order))

\* ---------------------------------------------------------- delete_sale
\* a delete_sale that also drops the history rows of the product it credits
delete_sale_restore_item_purging(d, item, company_id) ==
    [d EXCEPT
       !.products[item.product_id].current_stock = @ + item.quantity,
       !.history = SelectSeq(@, LAMBDA row : row.product # item.product_id)]

\* one pass of the `for item in items` loop of delete_sale
delete_sale_restore_item(d, item, company_id) ==
    LET pid == item.product_id
    IN  IF pid \notin DOMAIN d.products THEN d
        ELSE
        LET stock_before == d.products[pid].current_stock
            stock_after == stock_before + item.quantity
        IN  [d EXCEPT
              !.products[pid].current_stock = stock_after,
              !.history = Append(@,
                  ProductHistory(pid, "Sale Cancellation", item.quantity,
                                 stock_before, stock_after,
                                 item.unit_selling_price, item.total_amount,
                                 company_id))]

RECURSIVE delete_sale_restore_items(_, _, _, _)
delete_sale_restore_items(d, items, k, company_id) ==
    IF k > Len(items) THEN d
    ELSE delete_sale_restore_items(
            delete_sale_restore_item(d, items[k], company_id),
            items, k + 1, company_id)

\* the customer block of delete_sale
delete_sale_customer(custs, sale, company_id) ==
    IF sale.customer_id # NoCustomer
       /\ customer_in_company([customers |-> custs], sale.customer_id,
                              company_id)
    THEN [custs EXCEPT
            ![sale.customer_id].total_purchases = @ - sale.total_amount,
            ![sale.customer_id].total_transactions = @ - 1]
    ELSE custs

\* a delete that leaves the row in the table
without_nothing(t, id) == t

\* the rows of table t without the row of key id
without(t, id) == [k \in DOMAIN t \ {id} |-> t[k]]

\* the body of the atomic block of delete_sale
delete_sale_body(d, sale_id, company_id, order) ==
    IF ~sale_in_company(d, sale_id, company_id)
    THEN Result("SaleNotFound", d, sale_id, 0)
    ELSE
    LET sale == d.sales[sale_id]
        items == sale_items_of(sale, order)
        d1 == delete_sale_restore_items(d, items, 1, company_id)
        d2 == [d1 EXCEPT
                 !.customers = delete_sale_customer(@, sale, company_id),
                 !.sales = without(@, sale_id)]
    IN  Result("ok", d2, sale_id, 0)

\* a delete_sale that goes to the store without looking at the user's company
delete_sale_unguarded(d, sale_id, user, order) ==
    atomic(d, delete_sale_body(d, sale_id, UserCompany(user), order))

\* SaleService.delete_sale(sale_id, user)
delete_sale(d, sale_id, user, order) ==
    LET company_id == UserCompany(user)
    IN  IF company_id = NoCompany
        THEN Result("PermissionError", d, sale_id, 0)
        ELSE atomic(d, delete_sale_body(d, sale_id, company_id, order))

\* ------------------------------------------------------------ get_sales
\* start_date / end_date when the query parameter is not given
NoDate == -1

\* a 'YYYY-MM-DD' string compared with a DateTimeField: the date is taken
\* as the instant at which that day begins
to_datetime(date) == date * TicksPerDay

\* the filters of get_sales
get_sales_filter(d, company_id, start_date, end_date) ==
    {s \in DOMAIN d.sales :
        /\ d.sales[s].company = company_id
        /\ start_date # NoDate => d.sales[s].sale_date >= to_datetime(start_date)
        /\ end_date # NoDate => d.sales[s].sale_date <= to_datetime(end_date)}

\* qs.order_by("-sale_date")
RECURSIVE order_by_sale_date_desc(_, _)
order_by_sale_date_desc(d, S) ==
    IF S = {} THEN <<>>
    ELSE LET s == CHOOSE x \in S :
                     \A y \in S : d.sales[x].sale_date >= d.sales[y].sale_date
         IN  <<s>> \o order_by_sale_date_desc(d, S \ {s})

\* SaleService.get_sales(company_id, start_date, end_date): the ids of the
\* sales of the queryset, in its order; a query, it writes nothing
get_sales(d, company_id, start_date, end_date) ==
    order_by_sale_date_desc(d,
        get_sales_filter(d, company_id, start_date, end_date))

\* ---------------------------------------------------------------- views
\* shop.exception_handler.custom_exception_handler: the status of an
\* exception that a view lets through
custom_exception_handler(outcome) ==
    CASE outcome \in ValueErrors -> 400
      [] outcome = "PermissionError" -> 403
      [] OTHER -> 500

\* the status of the response of sale_views.create_sale
create_sale_status(outcome) ==
    CASE outcome = "ValidationError" -> 400
      [] outcome = "ok" -> 201
      [] outcome \in ValueErrors -> 400
      [] outcome = "PermissionError" -> 401
      [] OTHER -> 500

\* the status of the response of sale_views.update_sale
update_sale_status(outcome) ==
    CASE outcome = "ValidationError" -> 400
      [] outcome = "SaleNotFound" -> 404
      [] outcome = "ok" -> 200
      [] outcome \in ValueErrors -> 400
      [] outcome = "PermissionError" -> 401
      [] OTHER -> 500

\* the status of the response of sale_views.delete_sale
delete_sale_status(outcome) ==
    CASE outcome = "SaleNotFound" -> 404
      [] outcome = "ok" -> 204
      [] outcome = "PermissionError" -> 401
      [] OTHER -> custom_exception_handler(outcome)

\* sale_views.create_sale: serializer.is_valid(raise_exception=True), then
\* the service call
create_sale_view(d, data, user, sale_id, now) ==
    IF ~SaleCreateSerializer_is_valid(data)
    THEN Result("ValidationError", d, NoSale, 0)
    ELSE create_sale(d, data, user, sale_id, now)

\* sale_views.update_sale: serializer.is_valid(raise_exception=True), then
\* the service call
update_sale_view(d, sale_id, data, user, now, order) ==
    IF ~SaleCreateSerializer_is_valid(data)
    THEN Result("ValidationError", d, sale_id, 0)
    ELSE update_sale(d, sale_id, data, user, now, order)

\* product_views.delete_product: the soft delete of a product of the
\* user's company
delete_product(d, product_id, user) ==
    IF product_id \in DOMAIN d.products
       /\ d.products[product_id].company = UserCompany(user)
    THEN Result("ok", [d EXCEPT !.products[product_id].is_active = FALSE],
                NoSale, 0)
    ELSE Result("ProductNotFound", d, NoSale, 0)

\* ProductCreateSerializer: the fields of a product update that matter to
\* the sales (buying_price min_value=0.01, current_stock min_value=0)
ProductData == [buying_price : {1, 2}, current_stock : 0..MaxQty]

\* product_views.update_product: every field of the product of the user's
\* company is set from the request, current_stock included
update_product(d, product_id, data, user) ==
    IF product_id \in DOMAIN d.products
       /\ d.products[product_id].company = UserCompany(user)
    THEN Result("ok",
                [d EXCEPT !.products[product_id].buying_price = data.buying_price,
                          !.products[product_id].current_stock = data.current_stock],
                NoSale, 0)
    ELSE Result("ProductNotFound", d, NoSale, 0)

\* the status of the response of product_views.update_product
update_product_status(outcome) == IF outcome = "ok" THEN 200 ELSE 404

\* the status of the response of product_views.delete_product
delete_product_status(outcome) == IF outcome = "ok" THEN 204 ELSE 404

\* ------------------------------------------------------------- actions
\* the transactions (requests served side by side) and one that has not begun
Txns == 1..MaxTxns

IdleTx ==
    [pc |-> "idle", user |-> "none", data |-> [items |-> <<>>, customer_id |-> NoCustomer],
     k |-> 0, locks |-> {}, customer_read |-> NoCustomer, outcome |-> "none",
     sale_id |-> NoSale, sale |-> [customer_id |-> NoCustomer, total_amount |-> 0],
     st |-> [db |-> [history |-> <<>>], total_amount |-> 0, total_cost |-> 0,
             sale_items_data |-> <<>>, product_updates |-> <<>>,
             error |-> NoError, failed_at |-> 0, names |-> NoProduct]]

Init ==
    /\ products = [p \in Products |-> Product(p)]
    /\ history = <<>>
    /\ sales = <<>>
    /\ customers = [c \in Customers |-> Customer(c)]
    /\ next_sale_id = 1
    /\ clock = 1
    /\ nops = 0
    /\ last = [op |-> "none", user |-> "none", outcome |-> "none",
               sale_id |-> NoSale, failed_at |-> 0, names |-> NoProduct,
               status |-> 0, pre |-> DB]
    /\ tx = [t \in Txns |-> IdleTx]

\* the state after a service call that returned r
Commit(op, user, r, status, pre) ==
    /\ products' = r.db.products
    /\ history' = r.db.history
    /\ sales' = r.db.sales
    /\ customers' = r.db.customers
    /\ clock' = clock + 1
    /\ nops' = nops + 1
    /\ last' = [op |-> op, user |-> user, outcome |-> r.outcome,
                sale_id |-> r.sale_id, failed_at |-> r.failed_at,
                names |-> r.names, status |-> status, pre |-> pre]
    /\ UNCHANGED tx

\* the requests whose item list is shorter than the longest one
ShortData == {data \in SubmittedData : Len(data.items) < MaxItems}

\* what a user may submit: the service turns a user without a company away
\* before it looks at the validated data, so one valid body stands for all
Requests(user) ==
    CASE UserCompany(user) = NoCompany ->
           {[items |-> <<>>, customer_id |-> NoCustomer]}
      [] UserCompany(user) = "A" -> SubmittedData
      [] OTHER -> ShortData

\* ids of every sale ever stored (a deleted sale's id stays known to callers)
SaleIds == 1..(next_sale_id - 1)

\* the orders in which the store may return the SaleItem rows of a sale
Orders(sale_id) ==
    IF sale_id \in DOMAIN sales
    THEN LET n == Len(sales[sale_id].items)
         IN  {f \in [1..n -> 1..n] : \A i, j \in 1..n : f[i] = f[j] => i = j}
    ELSE {<<>>}

\* POST /sales: SaleService.create_sale(serializer.validated_data, request.user)
CreateSale ==
    /\ nops < MaxOps
    /\ \E user \in Users :
       \E r \in {create_sale_view(DB, data, user, next_sale_id, clock) :
                   data \in Requests(user)} :
         /\ Commit("create_sale", user, r, create_sale_status(r.outcome), DB)
         /\ next_sale_id' = IF r.outcome = "ok" THEN next_sale_id + 1
                            ELSE next_sale_id

\* PUT /sales/<id>: SaleService.update_sale(sale_id, validated_data, user)
UpdateSale ==
    /\ nops < MaxOps
    /\ \E user \in Users, sale_id \in SaleIds :
       \E r \in {update_sale_view(DB, sale_id, x[1], user, clock, x[2]) :
                   x \in Requests(user) \X Orders(sale_id)} :
         /\ Commit("update_sale", user, r, update_sale_status(r.outcome), DB)
         /\ UNCHANGED next_sale_id

\* DELETE /sales/<id>: SaleService.delete_sale(sale_id, request.user)
DeleteSale ==
    /\ nops < MaxOps
    /\ \E user \in Users, sale_id \in SaleIds :
       \E r \in {delete_sale(DB, sale_id, user, order) :
                   order \in Orders(sale_id)} :
         /\ Commit("delete_sale", user, r, delete_sale_status(r.outcome), DB)
         /\ UNCHANGED next_sale_id

\* DELETE /products/<id>: product_views.delete_product
DeleteProduct ==
    /\ nops < MaxOps
    /\ \E user \in Users, product_id \in Products :
       LET r == delete_product(DB, product_id, user)
       IN  /\ Commit("delete_product", user, r,
                     delete_product_status(r.outcome), DB)
           /\ UNCHANGED next_sale_id

Next == CreateSale \/ UpdateSale \/ DeleteSale \/ DeleteProduct

Spec == Init /\ [][Next]_vars

\* PUT /products/<id>/update: product_views.update_product
UpdateProduct ==
    /\ nops < MaxOps
    /\ \E user \in Users, product_id \in Products :
       \E r \in {update_product(DB, product_id, data, user) :
                   data \in ProductData} :
         /\ Commit("update_product", user, r,
                   update_product_status(r.outcome), DB)
         /\ UNCHANGED next_sale_id

\* the sales together with the catalog management of the products
CatalogNext == Next \/ UpdateProduct

SpecCatalog == Init /\ [][CatalogNext]_vars

\* ------------------------------------------- create_sale side by side
\* The store is MySQL/InnoDB at Django's READ COMMITTED: select_for_update
\* takes the row's exclusive lock and reads the latest committed row, the
\* lock is held until the transaction ends, the writes of a transaction
\* become visible at its commit and are discarded at its rollback.

\* the requests of the concurrent runs: users of company A, with or without
\* a customer of that company
ConcUsers == {"uA"}
ConcCustomers == {NoCustomer, "k1"}
ConcData == [items : ItemLists, customer_id : ConcCustomers]

\* the transaction holding the exclusive lock of product row pid, if any
lock_holders(pid) == {u \in Txns : pid \in tx[u].locks}

\* `with transaction.atomic():` is entered by create_sale
TxBegin(t) ==
    /\ tx[t].pc = "idle"
    /\ \A u \in Txns : u < t => tx[u].pc # "idle"
    /\ \E user \in ConcUsers, data \in ConcData :
         tx' = [tx EXCEPT ![t] = [IdleTx EXCEPT !.pc = "item", !.user = user,
                                               !.data = data, !.k = 1]]
    /\ UNCHANGED <<products, history, sales, customers, next_sale_id, clock,
                   nops, last>>

\* the exception leaves the atomic block: rollback, the locks are released
TxRollback(t, outcome, failed_at) ==
    /\ tx' = [tx EXCEPT ![t].pc = "done", ![t].outcome = outcome,
                         ![t].locks = {}, ![t].st.failed_at = failed_at]
    /\ last' = [op |-> "create_sale", user |-> tx[t].user, outcome |-> outcome,
                sale_id |-> NoSale, failed_at |-> failed_at,
                names |-> IF outcome \in ValueErrors
                          THEN tx[t].data.items[failed_at].product_id
                          ELSE NoProduct,
                status |-> create_sale_status(outcome), pre |-> DB]
    /\ UNCHANGED <<products, history, sales, customers, next_sale_id, clock,
                   nops>>

\* one pass of the item loop of create_sale: the locking read of the product
\* row waits while another transaction holds the row's lock
TxItem(t) ==
    /\ tx[t].pc = "item"
    /\ tx[t].k <= Len(tx[t].data.items)
    /\ LET item_req == tx[t].data.items[tx[t].k]
           pid == item_req.product_id
           company_id == UserCompany(tx[t].user)
           \* the loop state, reading the rows as committed by now
           st0 == [tx[t].st EXCEPT !.db = [products |-> products,
                                           history |-> tx[t].st.db.history]]
           st1 == create_sale_item(st0, item_req, company_id, tx[t].k)
       IN  /\ lock_holders(pid) \subseteq {t}
           /\ IF st1.error # NoError
              THEN TxRollback(t, st1.error, st1.failed_at)
              ELSE /\ tx' = [tx EXCEPT
                               ![t].st = [st1 EXCEPT !.db = [history |-> st1.db.history]],
                               ![t].locks = @ \cup {pid},
                               ![t].k = @ + 1]
                   /\ UNCHANGED <<products, history, sales, customers,
                                  next_sale_id, clock, nops, last>>

\* the customer lookup of create_sale: a plain read of the committed row
TxCustomer(t) ==
    /\ tx[t].pc = "item"
    /\ tx[t].k > Len(tx[t].data.items)
    /\ tx' = [tx EXCEPT ![t].pc = "commit",
                         ![t].customer_read =
                            IF tx[t].data.customer_id # NoCustomer
                            THEN customers[tx[t].data.customer_id]
                            ELSE NoCustomer]
    /\ UNCHANGED <<products, history, sales, customers, next_sale_id, clock,
                   nops, last>>

\* customer.save, Sale and SaleItem inserts, the product saves and the commit
TxCommit(t) ==
    /\ tx[t].pc = "commit"
    /\ LET st == tx[t].st
           customer_id == tx[t].data.customer_id
           company_id == UserCompany(tx[t].user)
           \* the statistics are computed from the row as it was read
           read == IF customer_id # NoCustomer
                   THEN [customers EXCEPT ![customer_id] = tx[t].customer_read]
                   ELSE customers
           written == create_sale_customer(read, customer_id, company_id,
                                           st.total_amount, clock)
           sale == Sale(customer_id, st.total_amount, st.total_cost,
                        st.total_amount - st.total_cost, company_id, clock,
                        st.sale_items_data)
       IN  /\ customers' = IF customer_id # NoCustomer
                                /\ customer_in_company([customers |-> read],
                                                       customer_id, company_id)
                            THEN [customers EXCEPT ![customer_id] = written[customer_id]]
                            ELSE customers
           /\ sales' = (next_sale_id :> sale) @@ sales
           /\ products' = save_product_updates(products, st.product_updates, 1)
           /\ history' = history \o st.db.history
           /\ next_sale_id' = next_sale_id + 1
           /\ clock' = clock + 1
           /\ last' = [op |-> "create_sale", user |-> tx[t].user,
                       outcome |-> "ok", sale_id |-> next_sale_id,
                       failed_at |-> 0, names |-> NoProduct,
                       status |-> create_sale_status("ok"), pre |-> DB]
           /\ tx' = [tx EXCEPT ![t].pc = "done", ![t].outcome = "ok",
                                ![t].locks = {}]
           /\ UNCHANGED nops

\* t waits for a row lock that u holds
waits_for(t, u) ==
    /\ tx[t].pc = "item"
    /\ tx[t].k <= Len(tx[t].data.items)
    /\ tx[t].data.items[tx[t].k].product_id \in tx[u].locks

\* a store whose deadlock detector finds no cycle
deadlock_undetected(t) == FALSE

\* the transactions of S and those they wait for, directly or through others
RECURSIVE waiting_on(_, _)
waiting_on(S, n) ==
    IF n = 0 THEN S
    ELSE waiting_on(S \cup {u \in Txns : \E v \in S : waits_for(v, u)}, n - 1)

\* t is in a cycle of transactions that wait for each other
waits_cycle(t) ==
    \E u \in Txns \ {t} : waits_for(t, u) /\ t \in waiting_on({u}, MaxTxns)

\* InnoDB's deadlock detector (innodb_deadlock_detect) finds the cycle t is in
deadlock_detected(t) == waits_cycle(t)

\* of two transactions that wait for each other one is rolled back with an
\* OperationalError
TxDeadlock(t) ==
    /\ deadlock_detected(t)
    /\ TxRollback(t, "OperationalError", tx[t].k)

ConcNext ==
    \E t \in Txns :
        TxBegin(t) \/ TxItem(t) \/ TxCustomer(t) \/ TxCommit(t) \/ TxDeadlock(t)

SpecConc == Init /\ [][ConcNext]_vars

\* ------------------------------------------- concurrent delete_sale
\* a sale made before the concurrent deletes begin
ConcCreateSale ==
    /\ \A t \in Txns : tx[t].pc = "idle"
    /\ nops < MaxConcSales
    /\ CreateSale

\* the exception leaves the atomic block of delete_sale: rollback, the locks
\* are released
DelRollback(t, outcome) ==
    /\ tx' = [tx EXCEPT ![t].pc = "done", ![t].outcome = outcome,
                         ![t].locks = {}]
    /\ last' = [op |-> "delete_sale", user |-> tx[t].user, outcome |-> outcome,
                sale_id |-> tx[t].sale_id, failed_at |-> 0,
                names |-> NoProduct, status |-> delete_sale_status(outcome),
                pre |-> DB]
    /\ UNCHANGED <<products, history, sales, customers, next_sale_id, clock,
                   nops>>

\* delete_sale enters the atomic block and looks the sale up: a plain read
\* of the committed row, which takes no lock
DelBegin(t) ==
    /\ tx[t].pc = "idle"
    /\ \A u \in Txns : u < t => tx[u].pc # "idle"
    /\ \E user \in ConcUsers, sale_id \in SaleIds :
         IF sale_in_company(DB, sale_id, UserCompany(user))
         THEN /\ tx' = [tx EXCEPT ![t] =
                          [IdleTx EXCEPT
                             !.pc = "items", !.user = user,
                             !.sale_id = sale_id,
                             !.sale = [customer_id |-> sales[sale_id].customer_id,
                                       total_amount |-> sales[sale_id].total_amount]]]
              /\ UNCHANGED <<products, history, sales, customers,
                             next_sale_id, clock, nops, last>>
         ELSE /\ tx' = [tx EXCEPT ![t] =
                          [IdleTx EXCEPT
                             !.pc = "done", !.user = user,
                             !.sale_id = sale_id, !.outcome = "SaleNotFound"]]
              /\ last' = [op |-> "delete_sale", user |-> user,
                          outcome |-> "SaleNotFound", sale_id |-> sale_id,
                          failed_at |-> 0, names |-> NoProduct,
                          status |-> delete_sale_status("SaleNotFound"),
                          pre |-> DB]
              /\ UNCHANGED <<products, history, sales, customers,
                             next_sale_id, clock, nops>>

\* `for item in items` evaluates the queryset: a plain read of the SaleItem
\* rows committed by now
DelItems(t) ==
    /\ tx[t].pc = "items"
    /\ \E order \in Orders(tx[t].sale_id) :
         tx' = [tx EXCEPT
                  ![t].pc = "item", ![t].k = 1,
                  ![t].data.items =
                      IF tx[t].sale_id \in DOMAIN sales
                      THEN sale_items_of(sales[tx[t].sale_id], order)
                      ELSE <<>>]
    /\ UNCHANGED <<products, history, sales, customers, next_sale_id, clock,
                   nops, last>>

\* one pass of the item loop of delete_sale: the locking read of the product
\* row waits while another transaction holds the row's lock and then reads
\* the row as committed by now
DelItem(t) ==
    /\ tx[t].pc = "item"
    /\ tx[t].k <= Len(tx[t].data.items)
    /\ LET item == tx[t].data.items[tx[t].k]
           pid == item.product_id
           st == tx[t].st
           d0 == [products |-> save_product_updates(products, st.product_updates, 1),
                  history |-> st.db.history]
           d1 == delete_sale_restore_item(d0, item, UserCompany(tx[t].user))
       IN  /\ lock_holders(pid) \subseteq {t}
           /\ tx' = [tx EXCEPT
                       ![t].st.db = [history |-> d1.history],
                       ![t].st.product_updates = Append(@,
                           [product_id |-> pid,
                            current_stock |-> d1.products[pid].current_stock]),
                       ![t].locks = @ \cup {pid},
                       ![t].k = @ + 1]
    /\ UNCHANGED <<products, history, sales, customers, next_sale_id, clock,
                   nops, last>>

\* the customer lookup of delete_sale: a plain read of the committed row
DelCustomer(t) ==
    /\ tx[t].pc = "item"
    /\ tx[t].k > Len(tx[t].data.items)
    /\ tx' = [tx EXCEPT ![t].pc = "commit",
                         ![t].customer_read =
                            IF tx[t].sale.customer_id \in DOMAIN customers
                            THEN customers[tx[t].sale.customer_id]
                            ELSE NoCustomer]
    /\ UNCHANGED <<products, history, sales, customers, next_sale_id, clock,
                   nops, last>>

\* customer.save, items.delete(), sale.delete() and the commit
DelCommit(t) ==
    /\ tx[t].pc = "commit"
    /\ LET st == tx[t].st
           customer_id == tx[t].sale.customer_id
           company_id == UserCompany(tx[t].user)
           \* the statistics are computed from the row as it was read
           read == IF customer_id \in DOMAIN customers
                   THEN [customers EXCEPT ![customer_id] = tx[t].customer_read]
                   ELSE customers
           written == delete_sale_customer(read, tx[t].sale, company_id)
       IN  /\ customers' = IF customer_id \in DOMAIN customers
                            THEN [customers EXCEPT ![customer_id] = written[customer_id]]
                            ELSE customers
           /\ sales' = without(sales, tx[t].sale_id)
           /\ products' = save_product_updates(products, st.product_updates, 1)
           /\ history' = history \o st.db.history
           /\ clock' = clock + 1
           /\ last' = [op |-> "delete_sale", user |-> tx[t].user,
                       outcome |-> "ok", sale_id |-> tx[t].sale_id,
                       failed_at |-> 0, names |-> NoProduct,
                       status |-> delete_sale_status("ok"), pre |-> DB]
           /\ tx' = [tx EXCEPT ![t].pc = "done", ![t].outcome = "ok",
                                ![t].locks = {}]
           /\ UNCHANGED <<next_sale_id, nops>>

\* of two deletes that wait for each other one is rolled back with an
\* OperationalError
DelDeadlock(t) ==
    /\ deadlock_detected(t)
    /\ DelRollback(t, "OperationalError")

ConcDeleteNext ==
    \/ ConcCreateSale
    \/ \E t \in Txns :
         \/ DelBegin(t) \/ DelItems(t) \/ DelItem(t)
         \/ DelCustomer(t) \/ DelCommit(t) \/ DelDeadlock(t)

SpecConcDelete == Init /\ [][ConcDeleteNext]_vars

\* a started request runs on: its thread executes the next statement, the
\* store grants a row lock that stays free, and the deadlock detector acts on
\* a cycle; the arrival of a request is not forced
SpecConcFair ==
    /\ SpecConc
    /\ \A t \in Txns :
         /\ WF_vars(TxItem(t))
         /\ WF_vars(TxCustomer(t))
         /\ WF_vars(TxCommit(t))
         /\ WF_vars(TxDeadlock(t))

\* the same for the concurrent deletes
SpecConcDeleteFair ==
    /\ SpecConcDelete
    /\ \A t \in Txns :
         /\ WF_vars(DelItems(t))
         /\ WF_vars(DelItem(t))
         /\ WF_vars(DelCustomer(t))
         /\ WF_vars(DelCommit(t))
         /\ WF_vars(DelDeadlock(t))

\* =============================================================== claims
\* the ProductHistory rows of product p, in the order they were written
ProductRows(p) == SelectSeq(history, LAMBDA row : row.product = p)

RECURSIVE SumQuantityChanged(_)
SumQuantityChanged(rows) ==
    IF rows = <<>> THEN 0
    ELSE Head(rows).quantity_changed + SumQuantityChanged(Tail(rows))

\* the existing sales that reference customer c
SalesOf(c) == {s \in DOMAIN sales : sales[s].customer_id = c}

RECURSIVE SumTotalAmount(_)
SumTotalAmount(S) ==
    IF S = {} THEN 0
    ELSE LET s == CHOOSE x \in S : TRUE
         IN  sales[s].total_amount + SumTotalAmount(S \ {s})

\* C1: stock conservation - every product's current_stock equals its initial
\* stock plus the signed sum of quantity_changed over its history rows.
C1_StockConservation ==
    \A p \in Products :
        products[p].current_stock =
            InitStock(p) + SumQuantityChanged(ProductRows(p))

\* C2: history chain - for every product, stock_before of each history row
\* equals stock_after of the preceding row of the same product.
C2_HistoryChain ==
    \A p \in Products :
        LET rows == ProductRows(p)
        IN  \A i \in 1..(Len(rows) - 1) :
                rows[i + 1].stock_before = rows[i].stock_after

\* C3: aggregate consistency - a customer's total_purchases is the sum of
\* total_amount over the existing sales that reference the customer, and
\* total_transactions is the number of those sales.
C3_AggregateConsistency ==
    \A c \in Customers :
        /\ customers[c].total_purchases = SumTotalAmount(SalesOf(c))
        /\ customers[c].total_transactions = Cardinality(SalesOf(c))

\* the failures raised inside the atomic block by a line of the item list
ItemFailures == {"ProductNotFound", "InsufficientStock"}

\* nothing the store holds has changed in this step
StoreUnchanged ==
    /\ products' = products
    /\ history' = history
    /\ sales' = sales
    /\ customers' = customers

\* C4: atomicity of create_sale - a create_sale that fails at an item
\* (product not found or insufficient stock) leaves stock, history, sales
\* with their items and customer aggregates exactly as before the call.
C4_CreateSaleAtomic ==
    [][(last'.op = "create_sale" /\ last'.outcome \in ItemFailures)
         => StoreUnchanged]_vars

\* a create_sale failed at its second line, after the first line was posted
C4_Witness ==
    /\ last.op = "create_sale"
    /\ last.outcome \in ItemFailures
    /\ last.failed_at >= 2

\* C5: in every committed state every product's current_stock is >= 0.
C5_StockNonNegative == \A p \in Products : products[p].current_stock >= 0

\* a product was sold out and a further debit was refused
C5_Witness ==
    /\ last.outcome = "InsufficientStock"
    /\ \E p \in Products :
         /\ products[p].current_stock = 0
         /\ ProductRows(p) # <<>>

\* C7: atomicity of update_sale - an update_sale that fails on the new item
\* list rolls back the re-credits, the reversal rows, the deletion of the
\* old items and any new item rows.
C7_UpdateSaleAtomic ==
    [][(last'.op = "update_sale" /\ last'.outcome \in ItemFailures)
         => StoreUnchanged]_vars

\* an update_sale of a sale with items failed at its second new line
C7_Witness ==
    /\ last.op = "update_sale"
    /\ last.outcome \in ItemFailures
    /\ last.failed_at >= 2
    /\ last.sale_id \in DOMAIN sales
    /\ sales[last.sale_id].items # <<>>

\* C9: delete_sale reverses create_sale - a successful delete_sale right
\* after the successful create_sale of the same sale restores every
\* product's stock and every customer's total_purchases and
\* total_transactions, removes the sale, and adds one 'Sale Cancellation'
\* row with positive quantity_changed per deleted item.
C9_DeleteReversesCreate ==
    [][(/\ last.op = "create_sale" /\ last.outcome = "ok"
        /\ last'.op = "delete_sale" /\ last'.outcome = "ok"
        /\ last'.sale_id = last.sale_id)
       =>
       /\ \A p \in Products :
            products'[p].current_stock = last.pre.products[p].current_stock
       /\ \A c \in Customers :
            /\ customers'[c].total_purchases =
                   last.pre.customers[c].total_purchases
            /\ customers'[c].total_transactions =
                   last.pre.customers[c].total_transactions
       /\ last.sale_id \notin DOMAIN sales'
       /\ Len(history') = Len(history) + Len(sales[last.sale_id].items)
       /\ \A i \in (Len(history) + 1)..Len(history') :
            /\ history'[i].transaction_type = "Sale Cancellation"
            /\ history'[i].quantity_changed > 0]_vars

RECURSIVE SumField(_, _)
SumField(items, f) ==
    IF items = <<>> THEN 0 ELSE Head(items)[f] + SumField(Tail(items), f)

\* C10: derived totals - every item of every existing sale has
\* total_amount = quantity * unit_selling_price, total_cost = quantity *
\* unit_buying_price and total_profit = total_amount - total_cost; the
\* sale's total_amount and total_cost are the sums over its items and its
\* total_profit = total_amount - total_cost (3 units bought at 5 and sold
\* at 8 give 24 / 15 / 9).
C10_DerivedTotals ==
    /\ \A s \in DOMAIN sales :
         /\ \A i \in 1..Len(sales[s].items) :
              LET item == sales[s].items[i]
              IN  /\ item.total_amount = item.quantity * item.unit_selling_price
                  /\ item.total_cost = item.quantity * item.unit_buying_price
                  /\ item.total_profit = item.total_amount - item.total_cost
         /\ sales[s].total_amount = SumField(sales[s].items, "total_amount")
         /\ sales[s].total_cost = SumField(sales[s].items, "total_cost")
         /\ sales[s].total_profit = sales[s].total_amount - sales[s].total_cost
    /\ create_sale_amounts(3, 8, 5) =
         [item_total |-> 24, item_cost |-> 15, item_profit |-> 9]
    /\ update_sale_amounts(1, 8, 5) =
         [item_total |-> 8, item_cost |-> 5, item_profit |-> 3]

\* an update_sale replaced the items of a sale by two lines
C10_Witness ==
    /\ last.op = "update_sale"
    /\ last.outcome = "ok"
    /\ Len(sales[last.sale_id].items) = 2
    /\ sales[last.sale_id].total_amount > 0

\* the units of product p on the lines of an item list or a sale
RECURSIVE QuantityOf(_, _)
QuantityOf(items, p) ==
    IF items = <<>> THEN 0
    ELSE (IF Head(items).product_id = p THEN Head(items).quantity ELSE 0)
         + QuantityOf(Tail(items), p)

\* a user of the company that owns the sale
UserOf(company_id) == CHOOSE u \in Users : UserCompany(u) = company_id

\* C8: update_sale credits the stock of every existing item back before it
\* checks any new item - an update of an existing sale by its tenant, whose
\* lines name products of the tenant and ask of each product no more than
\* its current stock plus what the sale already holds of it, succeeds.
C8_UpdateCreditsBeforeCheck ==
    nops < MaxOps =>
    \A sale_id \in DOMAIN sales :
    \A data \in SaleData :
        LET sale == sales[sale_id]
        IN  ( /\ \A i \in 1..Len(data.items) :
                   products[data.items[i].product_id].company = sale.company
              /\ \A p \in Products :
                   QuantityOf(data.items, p) <=
                       products[p].current_stock + QuantityOf(sale.items, p) )
            => \A order \in Orders(sale_id) :
                   update_sale(DB, sale_id, data, UserOf(sale.company), clock,
                               order).outcome = "ok"

\* an update_sale succeeded although it asks more of a product than the
\* stock the product had before the call
C8_Witness ==
    /\ last.op = "update_sale"
    /\ last.outcome = "ok"
    /\ \E p \in Products :
         /\ QuantityOf(sales[last.sale_id].items, p) >
                last.pre.products[p].current_stock
         /\ QuantityOf(last.pre.sales[last.sale_id].items, p) > 0

\* the units of product p on the items of all existing sales
RECURSIVE SoldUnits(_, _)
SoldUnits(S, p) ==
    IF S = {} THEN 0
    ELSE LET s == CHOOSE x \in S : TRUE
         IN  QuantityOf(sales[s].items, p) + SoldUnits(S \ {s}, p)

\* the transactions that debit product p have all committed, and more than
\* one of them does
CommittedDebits(p) ==
    LET debit == {t \in Txns : tx[t].pc # "idle"
                                /\ QuantityOf(tx[t].data.items, p) > 0}
    IN  /\ Cardinality(debit) >= 2
        /\ \A t \in debit : tx[t].pc = "done" /\ tx[t].outcome = "ok"
        /\ \A t \in Txns : tx[t].pc \in {"idle", "done"}

\* C6: concurrent create_sale transactions that debit the same product
\* serialize on the product-row lock - once they have committed no debit is
\* lost (current_stock is the initial stock minus the units of the committed
\* sales) and the committed sales hold no more units than the initial stock.
C6_NoLostDebit ==
    \A p \in Products :
        CommittedDebits(p) =>
            /\ SoldUnits(DOMAIN sales, p) <= InitStock(p)
            /\ products[p].current_stock =
                   InitStock(p) - SoldUnits(DOMAIN sales, p)

\* the store of the worked example: product p1 bought at 5 with 10 in stock
ExampleDB ==
    [products |-> [p \in Products |->
                     IF p = "p1"
                     THEN [Product(p) EXCEPT !.current_stock = 10,
                                             !.buying_price = 5]
                     ELSE Product(p)],
     history |-> <<>>, sales |-> <<>>,
     customers |-> [c \in Customers |-> Customer(c)]]

\* the request of the worked example: qty units of p1 at 8
ExampleData(qty) ==
    [items |-> <<[product_id |-> "p1", quantity |-> qty,
                  unit_selling_price |-> 8]>>,
     customer_id |-> NoCustomer]

\* the worked example: a sale of 3 from stock 10, then its update to 1
ExampleSold == create_sale(ExampleDB, ExampleData(3), "uA", 1, 1).db
ExampleUpdated == update_sale(ExampleSold, 1, ExampleData(1), "uA", 2, <<1>>).db

\* C11: update_sale is a full replacement - after a successful update_sale
\* the sale's items are exactly the new item list (no old item remains), the
\* history gains one 'Sale Update (Reversal)' row with quantity_changed =
\* +old quantity per old item, then one 'Sale Update' row with
\* quantity_changed = -new quantity per new item, and each product's stock
\* changes by (old quantities - new quantities) of that product (a sale of 3
\* updated to 1 from stock 7: rows 7->10 then 10->9, stock 9, total 8).
C11_UpdateFullReplacement ==
    /\ nops < MaxOps =>
        \A sale_id \in DOMAIN sales :
        \A data \in SaleRequests :
        \A order \in Orders(sale_id) :
            LET r == update_sale(DB, sale_id, data,
                                 UserOf(sales[sale_id].company), clock, order)
                old == sale_items_of(sales[sale_id], order)
                new == data.items
                n == Len(history)
            IN  r.outcome = "ok" =>
                /\ Len(r.db.sales[sale_id].items) = Len(new)
                /\ \A i \in 1..Len(new) :
                     LET item == r.db.sales[sale_id].items[i]
                     IN  /\ item.product_id = new[i].product_id
                         /\ item.quantity = new[i].quantity
                         /\ item.unit_selling_price = new[i].unit_selling_price
                /\ Len(r.db.history) = n + Len(old) + Len(new)
                /\ \A i \in 1..n : r.db.history[i] = history[i]
                /\ \A i \in 1..Len(old) :
                     LET row == r.db.history[n + i]
                     IN  /\ row.transaction_type = "Sale Update (Reversal)"
                         /\ row.product = old[i].product_id
                         /\ row.quantity_changed = old[i].quantity
                /\ \A i \in 1..Len(new) :
                     LET row == r.db.history[n + Len(old) + i]
                     IN  /\ row.transaction_type = "Sale Update"
                         /\ row.product = new[i].product_id
                         /\ row.quantity_changed = -new[i].quantity
                /\ \A p \in Products :
                     r.db.products[p].current_stock =
                         products[p].current_stock + QuantityOf(old, p)
                                                   - QuantityOf(new, p)
    /\ ExampleSold.products["p1"].current_stock = 7
    /\ Len(ExampleUpdated.history) = 3
    /\ ExampleUpdated.history[2].transaction_type = "Sale Update (Reversal)"
    /\ ExampleUpdated.history[2].stock_before = 7
    /\ ExampleUpdated.history[2].stock_after = 10
    /\ ExampleUpdated.history[3].transaction_type = "Sale Update"
    /\ ExampleUpdated.history[3].stock_before = 10
    /\ ExampleUpdated.history[3].stock_after = 9
    /\ ExampleUpdated.products["p1"].current_stock = 9
    /\ ExampleUpdated.sales[1].total_amount = 8

\* an update_sale replaced the two items of a sale by a different item list
C11_Witness ==
    /\ last.op = "update_sale"
    /\ last.outcome = "ok"
    /\ Len(last.pre.sales[last.sale_id].items) = 2
    /\ sales[last.sale_id].items # <<>>
    /\ \E p \in Products :
         QuantityOf(sales[last.sale_id].items, p) #
             QuantityOf(last.pre.sales[last.sale_id].items, p)

\* C12: when a successful update_sale changes the sale's customer from A to
\* a different customer B of the tenant, A.total_purchases goes down by the
\* sale's previous total and A.total_transactions by 1, B.total_purchases
\* goes up by the sale's new total and B.total_transactions by 1; when the
\* customer stays, total_purchases changes by (new total - previous total)
\* and total_transactions does not change.
C12_CustomerMove ==
    [][(last'.op = "update_sale" /\ last'.outcome = "ok")
       =>
       LET sale_id == last'.sale_id
           A == sales[sale_id].customer_id
           B == sales'[sale_id].customer_id
           previous_total == sales[sale_id].total_amount
           new_total == sales'[sale_id].total_amount
       IN  /\ (A # NoCustomer /\ B # A
                /\ CustomerCompany(B) = sales[sale_id].company)
               => /\ customers'[A].total_purchases =
                        customers[A].total_purchases - previous_total
                  /\ customers'[A].total_transactions =
                        customers[A].total_transactions - 1
                  /\ customers'[B].total_purchases =
                        customers[B].total_purchases + new_total
                  /\ customers'[B].total_transactions =
                        customers[B].total_transactions + 1
           /\ (A # NoCustomer /\ B = A)
               => /\ customers'[A].total_purchases =
                        customers[A].total_purchases + new_total
                                                     - previous_total
                  /\ customers'[A].total_transactions =
                        customers[A].total_transactions]_vars

\* the products named by the item list of transaction t
TxProducts(t) ==
    {tx[t].data.items[i].product_id : i \in 1..Len(tx[t].data.items)}

\* every transaction has ended, and two or more of them, on different
\* products, have committed a sale for customer c
CommittedPurchases(c) ==
    LET buy == {t \in Txns : tx[t].pc = "done" /\ tx[t].outcome = "ok"
                              /\ tx[t].data.customer_id = c}
    IN  /\ Cardinality(buy) >= 2
        /\ \A t \in buy : TxProducts(t) # {}
        /\ \A t, u \in buy : t # u => TxProducts(t) \cap TxProducts(u) = {}
        /\ \A t \in Txns : tx[t].pc \in {"idle", "done"}

\* C13: customer aggregate updates are not lost under concurrency - when
\* concurrent create_sale transactions for the same customer and different
\* products have all committed, the customer's total_purchases is the sum
\* and total_transactions the count over the customer's existing sales.
C13_NoLostAggregate ==
    \A c \in Customers :
        CommittedPurchases(c) =>
            /\ customers[c].total_purchases = SumTotalAmount(SalesOf(c))
            /\ customers[c].total_transactions = Cardinality(SalesOf(c))

\* the service calls on sales
SaleOps == {"create_sale", "update_sale", "delete_sale"}

\* C14: tenant isolation - a create_sale, update_sale or delete_sale call by
\* an actor of one tenant never changes the stock or the history of a
\* product of another tenant, never changes a customer aggregate of another
\* tenant and never modifies or deletes a sale of another tenant; update_sale
\* and delete_sale answer not-found for a sale id of another tenant and
\* change nothing.
C14_TenantIsolation ==
    [][(last'.op \in SaleOps /\ UserCompany(last'.user) # NoCompany)
       =>
       LET company_id == UserCompany(last'.user)
       IN  /\ \A p \in Products :
                ProductCompany(p) # company_id => products'[p] = products[p]
           /\ Len(history') >= Len(history)
           /\ \A i \in 1..Len(history) : history'[i] = history[i]
           /\ \A i \in (Len(history) + 1)..Len(history') :
                ProductCompany(history'[i].product) = company_id
           /\ \A c \in Customers :
                CustomerCompany(c) # company_id => customers'[c] = customers[c]
           /\ \A s \in DOMAIN sales :
                sales[s].company # company_id
                    => s \in DOMAIN sales' /\ sales'[s] = sales[s]
           /\ (/\ last'.op \in {"update_sale", "delete_sale"}
               /\ last'.outcome # "ValidationError"
               /\ last'.sale_id \in DOMAIN sales
               /\ sales[last'.sale_id].company # company_id)
              => /\ last'.outcome = "SaleNotFound"
                 /\ last'.status = 404
                 /\ StoreUnchanged]_vars

\* a user of company A asked to update or delete a stored sale of company B
C14_Witness ==
    /\ last.op \in {"update_sale", "delete_sale"}
    /\ last.user = "uA"
    /\ last.outcome = "SaleNotFound"
    /\ last.sale_id \in DOMAIN sales
    /\ sales[last.sale_id].company = "B"
    /\ sales[last.sale_id].items # <<>>

\* C15: every stored sale that has a customer reference refers to a
\* customer of the sale's own tenant.
C15_SaleCustomerInTenant ==
    \A s \in DOMAIN sales :
        sales[s].customer_id # NoCustomer
            => /\ sales[s].customer_id \in DOMAIN customers
               /\ customers[sales[s].customer_id].company = sales[s].company

\* C16: create_sale, update_sale and delete_sale called by a user without a
\* company fail with the PermissionError outcome (401) whatever the store
\* holds, leave all state unchanged, and the outcome is distinct from
\* not-found.
C16_NoCompanyUnauthorized ==
    [][(last'.op \in SaleOps /\ UserCompany(last'.user) = NoCompany)
       => /\ last'.outcome = "PermissionError"
          /\ last'.status = 401
          /\ last'.status # update_sale_status("SaleNotFound")
          /\ last'.status # delete_sale_status("SaleNotFound")
          /\ StoreUnchanged]_vars

\* a user without a company asked to delete a sale that is not stored
C16_Witness ==
    /\ last.op = "delete_sale"
    /\ UserCompany(last.user) = NoCompany
    /\ last.outcome = "PermissionError"
    /\ last.sale_id \notin DOMAIN sales
    /\ history # <<>>

\* C17: create_sale and update_sale reject an empty item list - no sale is
\* created or left with zero items.
C17_EmptyItemsRejected == \A s \in DOMAIN sales : sales[s].items # <<>>

\* C18: a stock debit (create_sale or the new-item phase of update_sale) is
\* made only on an active product of the actor's tenant - every debit row a
\* call adds to the history names a product that was active and belonged to
\* the actor's company when the call began.
C18_DebitsActiveTenantProduct ==
    [][(last'.op \in {"create_sale", "update_sale"})
       => \A i \in (Len(history) + 1)..Len(history') :
             history'[i].quantity_changed < 0
                 => /\ products[history'[i].product].is_active
                    /\ products[history'[i].product].company =
                           UserCompany(last'.user)]_vars

\* the least element of a non-empty set of numbers
Least(K) == CHOOSE k \in K : \A j \in K : k <= j

\* the lines of an item list that stop a call of a user of company_id, when
\* line k finds stock(k) units on the row it locks: the product is not one
\* of the company, or the line asks for more than the row holds
StopLines(items, company_id, stock(_)) ==
    {k \in 1..Len(items) :
        \/ products[items[k].product_id].company # company_id
        \/ items[k].quantity > stock(k)}

\* the first stop line asks too much of a product of the company
StopsOnStock(items, company_id, stock(_)) ==
    LET K == StopLines(items, company_id, stock)
    IN  /\ K # {}
        /\ products[items[Least(K)].product_id].company = company_id

\* what a call that stops on stock must give back
InsufficientStockResult(r, items, company_id, stock(_)) ==
    LET k == Least(StopLines(items, company_id, stock))
    IN  /\ r.failed_at = k
        /\ r.names = items[k].product_id
        /\ r.db = DB

\* the store of the scenario: product p1 with 2 in stock
ScenarioDB == [ExampleDB EXCEPT !.products["p1"].current_stock = 2]

\* C19: whenever a requested quantity exceeds the stock of the product row
\* the call has locked, create_sale / update_sale fail with InsufficientStock
\* naming that product, leave stock unchanged and create no rows, and the
\* failure is answered with 400, not with the 500 of an internal failure
\* (stock 2, a sale of 5: InsufficientStock, stock stays 2, no rows).
C19_InsufficientStock ==
    /\ last.outcome = "InsufficientStock"
          => /\ last.status = 400
             /\ last.names # NoProduct
             /\ DB = last.pre
    /\ create_sale_status("InsufficientStock") # create_sale_status("IntegrityError")
    /\ update_sale_status("InsufficientStock") # update_sale_status("IntegrityError")
    /\ nops < MaxOps =>
        \A data \in SaleRequests :
          /\ \A user \in {"uA", "uB"} :
               LET r == create_sale(DB, data, user, next_sale_id, clock)
                   \* the row is read as stored: create_sale saves no stock
                   \* before the loop ends
                   stock(k) == products[data.items[k].product_id].current_stock
                   company_id == UserCompany(user)
               IN  /\ r.outcome = "InsufficientStock"
                         <=> StopsOnStock(data.items, company_id, stock)
                   /\ r.outcome = "InsufficientStock"
                         => InsufficientStockResult(r, data.items, company_id, stock)
          /\ \A sale_id \in DOMAIN sales : \A order \in Orders(sale_id) :
               LET company_id == sales[sale_id].company
                   r == update_sale(DB, sale_id, data, UserOf(company_id),
                                    clock, order)
                   \* the row holds the stored stock, the units the old items
                   \* gave back and the debits of the lines before
                   stock(k) ==
                       LET p == data.items[k].product_id
                       IN  products[p].current_stock
                             + QuantityOf(sales[sale_id].items, p)
                             - QuantityOf(SubSeq(data.items, 1, k - 1), p)
               IN  /\ r.outcome = "InsufficientStock"
                         <=> StopsOnStock(data.items, company_id, stock)
                   /\ r.outcome = "InsufficientStock"
                         => InsufficientStockResult(r, data.items, company_id, stock)
    /\ LET r == create_sale(ScenarioDB, ExampleData(5), "uA", 1, 1)
       IN  /\ r.outcome = "InsufficientStock"
           /\ r.names = "p1"
           /\ r.db = ScenarioDB
           /\ create_sale_status(r.outcome) = 400

\* an update_sale was refused at its second line for lack of stock of p2
C19_Witness ==
    /\ last.op = "update_sale"
    /\ last.outcome = "InsufficientStock"
    /\ last.status = 400
    /\ last.failed_at = 2
    /\ last.names = "p2"

\* C20: create_sale or update_sale given a customer_id that is absent or
\* belongs to another tenant ends in a caller-correctable failure with no
\* state change - such a call is neither answered as an internal failure
\* (500) nor does it succeed and leave the sale with that customer_id.
C20_UnknownCustomerRejected ==
    last.op \in {"create_sale", "update_sale"} =>
        /\ last.status # 500
        /\ (last.outcome = "ok" /\ sales[last.sale_id].customer_id # NoCustomer)
              => customer_in_company(DB, sales[last.sale_id].customer_id,
                                     UserCompany(last.user))

\* C21: sale lifecycle - a sale becomes stored only by a successful
\* create_sale, a failed create_sale stores none, a successful delete_sale
\* removes the sale, a removed sale never comes back, and every later
\* update_sale or delete_sale on its id answers not-found and changes
\* neither stock, history nor customer aggregates.
C21_SaleLifecycle ==
    [][/\ \A s \in DOMAIN sales' \ DOMAIN sales :
            /\ last'.op = "create_sale"
            /\ last'.outcome = "ok"
            /\ last'.sale_id = s
       /\ (last'.op = "create_sale" /\ last'.outcome # "ok")
             => DOMAIN sales' = DOMAIN sales
       /\ (last'.op = "delete_sale" /\ last'.outcome = "ok")
             => last'.sale_id \notin DOMAIN sales'
       /\ \A s \in SaleIds \ DOMAIN sales : s \notin DOMAIN sales'
       /\ (/\ last'.op \in {"update_sale", "delete_sale"}
           /\ last'.sale_id \in SaleIds \ DOMAIN sales
           /\ UserCompany(last'.user) # NoCompany
           /\ last'.outcome # "ValidationError")
          => /\ last'.outcome = "SaleNotFound"
             /\ last'.status = 404
             /\ StoreUnchanged]_vars

\* an update_sale by the owner of a deleted sale was answered not-found
C21_Witness ==
    /\ last.op = "update_sale"
    /\ last.user = "uA"
    /\ last.outcome = "SaleNotFound"
    /\ last.sale_id \in SaleIds \ DOMAIN sales
    /\ \E i \in 1..Len(history) :
         history[i].transaction_type = "Sale Cancellation"

\* the history rows of the debits and of the credits
DebitTypes == {"Sale", "Sale Update"}
CreditTypes == {"Sale Update (Reversal)", "Sale Cancellation"}

\* C22: every ProductHistory row written by create_sale, update_sale or
\* delete_sale has stock_after = stock_before + quantity_changed, with
\* quantity_changed = -quantity on the debit rows ('Sale', 'Sale Update')
\* and +quantity on the credit rows ('Sale Update (Reversal)', 'Sale
\* Cancellation').
C22_HistoryRowArithmetic ==
    /\ \A i \in 1..Len(history) :
         LET row == history[i]
         IN  /\ row.stock_after = row.stock_before + row.quantity_changed
             /\ row.transaction_type \in DebitTypes \cup CreditTypes
             /\ row.transaction_type \in DebitTypes
                   => row.quantity_changed \in {-q : q \in Quantities}
             /\ row.transaction_type \in CreditTypes
                   => row.quantity_changed \in Quantities
    \* the rows of the call that has just ended carry the quantities of its
    \* lines: the debits of a create_sale, the credits of a delete_sale
    /\ (last.op = "create_sale" /\ last.outcome = "ok")
         => LET items == sales[last.sale_id].items
                n == Len(history) - Len(items)
            IN  /\ n = Len(last.pre.history)
                /\ \A i \in 1..Len(items) :
                     /\ history[n + i].transaction_type = "Sale"
                     /\ history[n + i].product = items[i].product_id
                     /\ history[n + i].quantity_changed = -items[i].quantity
    /\ (last.op = "delete_sale" /\ last.outcome = "ok")
         => LET items == last.pre.sales[last.sale_id].items
                n == Len(last.pre.history)
            IN  /\ Len(history) = n + Len(items)
                /\ \A i \in 1..Len(items) :
                     /\ history[n + i].transaction_type = "Sale Cancellation"
                     /\ \E j \in 1..Len(items) :
                          /\ history[n + i].product = items[j].product_id
                          /\ history[n + i].quantity_changed = items[j].quantity

\* the history holds a row of each of the four kinds
C22_Witness ==
    \A type \in DebitTypes \cup CreditTypes :
        \E i \in 1..Len(history) : history[i].transaction_type = type

\* C23: ProductHistory is append-only - no create_sale, update_sale or
\* delete_sale changes or removes a row that was there before the call, each
\* call only adds rows; a delete_sale keeps the 'Sale' rows of the sale it
\* deletes.
C23_HistoryAppendOnly ==
    [][/\ Len(history') >= Len(history)
       /\ \A i \in 1..Len(history) : history'[i] = history[i]]_vars

\* a delete_sale has ended and the 'Sale' rows of the deleted sale are there
C23_Witness ==
    /\ last.op = "delete_sale"
    /\ last.outcome = "ok"
    /\ last.pre.sales[last.sale_id].items # <<>>
    /\ \A i \in 1..Len(last.pre.sales[last.sale_id].items) :
         \E j \in 1..Len(history) :
            /\ history[j].transaction_type = "Sale"
            /\ history[j].product =
                   last.pre.sales[last.sale_id].items[i].product_id

\* the latest sale_date among the sales of the set S
RECURSIVE MaxSaleDate(_)
MaxSaleDate(S) ==
    IF S = {} THEN 0
    ELSE LET s == CHOOSE x \in S : TRUE
             rest == MaxSaleDate(S \ {s})
         IN  IF sales[s].sale_date > rest THEN sales[s].sale_date ELSE rest

\* the existing sales of customer c made by c's own company
TenantSalesOf(c) ==
    {s \in SalesOf(c) : sales[s].company = customers[c].company}

\* C24: after any sequence of create_sale / update_sale / delete_sale a
\* customer's last_purchase_date is the latest sale date among the
\* customer's existing sales (stated for the customers that have a sale, all
\* of them made by the customer's own company).
C24_LastPurchaseDate ==
    \A c \in Customers :
        (SalesOf(c) # {} /\ TenantSalesOf(c) = SalesOf(c))
            => customers[c].last_purchase_date = MaxSaleDate(SalesOf(c))

\* C29: when a create_sale item list names a product on two or more lines,
\* the product's stock goes down by the sum of the quantities of those
\* lines - a successful create_sale debits every product by the units the
\* new sale holds of it, as update_sale does for the same list.
C29_CreateDebitsEveryLine ==
    [][(last'.op = "create_sale" /\ last'.outcome = "ok")
       => \A p \in Products :
             products'[p].current_stock =
                 products[p].current_stock
                   - QuantityOf(sales'[last'.sale_id].items, p)]_vars

\* the calendar day of an instant, and the days a behaviour can reach
DayOf(t) == t \div TicksPerDay
Days == 0..((MaxOps + 1) \div TicksPerDay)

\* C28: get_sales(tenant, start_date, end_date) returns exactly the
\* tenant's sales whose sale date lies in the inclusive calendar range
\* [start_date, end_date] (a sale made at any time of the end date is
\* included), most recent first.
C28_GetSalesInclusiveRange ==
    \A company_id \in {"A", "B"} : \A start_date, end_date \in Days :
        LET r == get_sales(DB, company_id, start_date, end_date)
        IN  /\ {r[i] : i \in 1..Len(r)} =
                 {s \in DOMAIN sales :
                     /\ sales[s].company = company_id
                     /\ DayOf(sales[s].sale_date) >= start_date
                     /\ DayOf(sales[s].sale_date) <= end_date}
            /\ \A i, j \in 1..Len(r) :
                 i < j => sales[r[i]].sale_date > sales[r[j]].sale_date

\* the lines of two item lists ask the same products, quantities and prices
SameLines(items, other) ==
    /\ Len(items) = Len(other)
    /\ \A i \in 1..Len(items) :
         /\ items[i].product_id = other[i].product_id
         /\ items[i].quantity = other[i].quantity
         /\ items[i].unit_selling_price = other[i].unit_selling_price

\* C25: cost snapshot - a SaleItem's unit_buying_price, and with it the
\* item's and the sale's total_cost and total_profit, does not change when
\* the product's buying_price is changed later, also when update_sale later
\* resubmits the same products and quantities.
C25_CostSnapshot ==
    [][/\ last'.op = "update_product" => sales' = sales
       /\ (/\ last'.op = "update_sale"
           /\ last'.outcome = "ok"
           /\ SameLines(sales'[last'.sale_id].items, sales[last'.sale_id].items))
          => /\ sales'[last'.sale_id].items = sales[last'.sale_id].items
             /\ sales'[last'.sale_id].total_cost = sales[last'.sale_id].total_cost
             /\ sales'[last'.sale_id].total_profit =
                    sales[last'.sale_id].total_profit]_vars

\* C26: Product.current_stock is changed only by the sale engine, each
\* change paired with a ProductHistory row - a step that changes a
\* product's current_stock is a sale call that appends a history row of
\* that product; the catalog update of a product leaves current_stock alone.
C26_StockOnlyBySales ==
    [][\A p \in Products :
          products'[p].current_stock # products[p].current_stock
              => /\ last'.op \in SaleOps
                 /\ \E i \in (Len(history) + 1)..Len(history') :
                      history'[i].product = p]_vars

\* transactions have locked one product each and wait for the product of
\* the other
Deadlocked == \E t \in Txns : waits_cycle(t)

DeleteSaleTerminates ==
    \A t \in Txns : (tx[t].pc # "idle") ~> (tx[t].pc = "done")

C30_ReversedAtMostOnce ==
    /\ \A p \in Products : SumQuantityChanged(ProductRows(p)) <= 0
    /\ \A c \in Customers :
         /\ customers[c].total_transactions >= 0
         /\ customers[c].total_purchases >= 0

====
